---- MODULE Spec2Model ----
(***************************************************************************)
(* Model of h5xx's dataset layer (h5xx/dataset.hpp, h5xx/group.hpp): the   *)
(* chunked and the unique dataset of one name in one file, and the create, *)
(* write and read operations on it for every value category.               *)
(*                                                                         *)
(* A dataset is its dataspace (dims, the maximum extent of axis 0) and its *)
(* elements in row-major order.  A caller's container is its category, its *)
(* shape and its elements in storage order.  The rest of the file is the   *)
(* links at the other paths (groups and datasets), the ids left open in    *)
(* the library and the state of its automatic error reporting.             *)
(***************************************************************************)
EXTENDS Integers, Sequences, FiniteSets, TLC

\* ---------------------------------------------------------------- bounds
\* most records an unlimited chunked dataset is grown to
MaxLen == 2
\* largest finite max_size a chunked dataset is created with
MaxRecords == 1
\* largest per-axis extent of a value: the size of a vector, an extent of a
\* multi_array, the static_size of a boost::array
MaxExt == 2
\* width in bits of the signed index type (ssize_t) and of hsize_t
IndexBits == 4
\* largest per-axis extent of a unique dataset whose layout is decided
MaxLayoutExt == 9
\* most ids of the library left open at once
MaxHandles == 2
\* most segments of a path
MaxDepth == 2

\* ------------------------------------------------------------- constants
\* the library's default fill value of elements never written
Fill == 0
\* content of memory the program never initialised
Junk == 0 - 1

\* enum { compression_level = 6 }
compression_level == 6
\* "enable GZIP compression for at least 64 bytes"
MinBytes == 64
\* sizeof(T) of the fundamental types
ElementSizes == {1, 2, 4, 8}
\* sizeof(T) of the element type of the values written and read
SizeofT == 4

SSizeMin == 0 - 2 ^ (IndexBits - 1)
SSizeMax == 2 ^ (IndexBits - 1) - 1
HSizeMod == 2 ^ IndexBits
\* (hsize_t)(-1): "no maximum" for max_size and "append" for index
H5S_UNLIMITED == HSizeMod - 1

RECURSIVE Prod(_)
Prod(s) == IF s = <<>> THEN 1 ELSE Head(s) * Prod(Tail(s))

\* (hsize_t) of a signed index: start[0] = index, return index
ToHsize(i) == i % HSizeMod

\* outcomes of undefined behaviour
\* -index for the most negative index: wraps, is folded into the wider
\* comparison index < -len by the optimiser, or traps (-ftrapv)
NegOutcomes == {"wrap", "wide", "trap"}
\* a raw transfer past the end of the caller's buffer: runs on over the
\* adjacent memory, or faults
OverrunOutcomes == {"run", "crash"}

\* ------------------------------------------------------------ containers
\* the (category, shape) pairs of the value types: a scalar, boost::array<T,N>,
\* boost::multi_array<T,2>, std::vector<T>, std::vector<boost::array<T,N>>
TypedShapes ==
    {[cat |-> "scalar", shape |-> <<>>]}
    \cup {[cat |-> "array", shape |-> <<n>>] : n \in 1..MaxExt}
    \cup {[cat |-> "multi", shape |-> <<a, b>>] : a \in 1..MaxExt, b \in 1..MaxExt}
    \cup {[cat |-> "vec", shape |-> <<s>>] : s \in 1..MaxExt}
    \cup {[cat |-> "vecarr", shape |-> <<s, n>>] : s \in 1..MaxExt, n \in 1..MaxExt}

\* the payloads written: the program never looks at an element, so two
\* payloads are enough to tell any record from any other and from the fill
Payloads == {1, 2}

\* the elements of payload t in a container of n elements, all different
Pattern(t, n) == [k \in 1..n |-> t * 100 + k]

\* the values a caller writes
Values ==
    {[cat |-> ts.cat, shape |-> ts.shape, elems |-> Pattern(t, Prod(ts.shape))] :
        ts \in TypedShapes, t \in Payloads}

\* the output containers a caller passes to a read
OutContainers ==
    {[cat |-> ts.cat, shape |-> ts.shape,
      elems |-> [k \in 1..Prod(ts.shape) |-> Junk]] : ts \in TypedShapes}

\* ---------------------------------------------------------------- dataset
NoDataset == [exists |-> FALSE, dims |-> <<>>, max0 |-> 0, data |-> <<>>]

\* a result of an operation: the error raised ("ok": none), the dataset and
\* the caller's container afterwards, the value returned, whether the raw
\* transfer was reached and the axis-0 offset of the hyperslab selected
Result(err, d, out, ret, rawRead, rawWrite, start) ==
    [err |-> err, ds |-> d, out |-> out, ret |-> ret,
     rawRead |-> rawRead, rawWrite |-> rawWrite, start |-> start]

NoStart == 0 - 1

\* no container: the argument of a call that takes none
NoValue == [cat |-> "none", shape |-> <<>>, elems |-> <<>>]

Fail(err, d, out) == Result(err, d, out, 0, FALSE, FALSE, NoStart)

\* h5xx/utility.hpp
has_rank(d, rank) == Len(d.dims) = rank

\* h5xx/utility.hpp: has_extent<T, extra>(dataset) of a boost::array
has_extent_array(d, n, extra) ==
    has_rank(d, 1 + extra) /\ d.dims[1 + extra] = n

\* h5xx/utility.hpp: has_extent<T, extra>(dataset, shape) of a multi_array
has_extent_multi(d, shape, extra) ==
    /\ has_rank(d, Len(shape) + extra)
    /\ SubSeq(d.dims, 1 + extra, Len(d.dims)) = shape

\* ------------------------------------------------- the library's dataset
\* H5Dcreate of a dataspace (dims, maximum extent of axis 0): every element
\* holds the fill value
NewDataset(dims, max0) ==
    [exists |-> TRUE, dims |-> dims, max0 |-> max0,
     data |-> [p \in 1..Prod(dims) |-> Fill]]

\* H5Ldelete(loc, name) of a link the name does not have: nothing is removed
H5Ldelete_absent(d) == d

\* H5Ldelete(loc, name): the name holds no dataset afterwards; that it held
\* none before is an error the caller suppresses
H5Ldelete(d) == NoDataset

\* H5Dcreate(loc, name, ...): refused while the name is taken
H5Dcreate(d, new) ==
    IF d.exists THEN [id |-> 0 - 1, ds |-> d] ELSE [id |-> 1, ds |-> new]

\* dataset.extend(dim) is refused when axis 0 has no room to grow
ExtendFails(d, dim) == d.max0 # H5S_UNLIMITED /\ dim[1] > d.max0

\* dataset.extend(dim): the elements present keep their place (axis 0 is the
\* slowest), the new ones hold the fill value
Extend(d, dim) ==
    [d EXCEPT !.dims = dim,
              !.data = [p \in 1..Prod(dim) |->
                           IF p <= Len(d.data) THEN d.data[p] ELSE Fill]]

\* the n elements a raw write takes from the caller's buffer; past the end of
\* the buffer it takes whatever the memory holds
Source(buf, n) == [k \in 1..n |-> IF k <= Len(buf) THEN buf[k] ELSE Junk]

\* the caller's buffer after a raw read of rec into it: the elements past the
\* end of the buffer land in memory that is not the buffer's
Sink(buf, rec) ==
    [k \in 1..Len(buf) |-> IF k <= Len(rec) THEN rec[k] ELSE buf[k]]

\* dataset.write(data, type, mem_dataspace, dataspace) with the hyperslab
\* (start0, 0, ...) of block (1, dim[1], ...) selected in a dataspace of extent
\* dim: the library refuses a selection that is not within the extent
RawWrite(d, dim, start0, buf, out, ob) ==
    LET n == Prod(Tail(dim)) IN
    IF start0 + 1 > dim[1]
    THEN Result("write_failed", d, out, 0, FALSE, TRUE, start0)
    ELSE IF n > Len(buf) /\ ob = "crash"
    THEN Result("crash", d, out, 0, FALSE, TRUE, start0)
    ELSE LET src == Source(buf, n) IN
         Result("ok",
                [d EXCEPT !.data = [p \in 1..Len(d.data) |->
                     IF p > start0 * n /\ p <= start0 * n + n
                     THEN src[p - start0 * n] ELSE d.data[p]]],
                out, 0, FALSE, TRUE, start0)

\* dataset.read(data, type, mem_dataspace, dataspace) with the same hyperslab
RawRead(d, dim, start0, buf, ob) ==
    LET n == Prod(Tail(dim)) IN
    IF start0 + 1 > dim[1]
    THEN [err |-> "read_failed", buf |-> buf]
    ELSE IF n > Len(buf) /\ ob = "crash"
    THEN [err |-> "crash", buf |-> buf]
    ELSE [err |-> "ok",
          buf |-> Sink(buf, SubSeq(d.data, start0 * n + 1, start0 * n + n))]

\* ------------------------------------------- generic case <T, rank>: create
\* a dataset that starts empty whatever its max_size
initial_dim0_empty(max_size) == 0

\* dim[0] = (max_size == H5S_UNLIMITED) ? 0 : max_size
initial_dim0(max_size) == IF max_size = H5S_UNLIMITED THEN 0 ELSE max_size

create_dataset_generic(shape, max_size) ==
    NewDataset(<<initial_dim0(max_size)>> \o shape, max_size)

\* the dataset creation property list: the chunk shape (none: the default
\* contiguous layout), the deflate level (0: no compression) and, with it, the
\* element size of the datatype the dataset is created with
Cparms(size, chunk, deflate) ==
    [size |-> size, chunk |-> chunk, deflate |-> deflate]

NoCparms == Cparms(0, <<>>, 0)

\* chunk_dim = (1, shape...); cparms.setChunk; cparms.setDeflate
create_dataset_cparms(size, shape) ==
    Cparms(size, <<1>> \o shape, compression_level)

\* if (rank > 0 && sizeof(T) * shape[0] > 64) { setChunk; setDeflate }
create_unique_dataset_cparms(size, shape) ==
    IF Len(shape) > 0 /\ size * shape[1] > MinBytes
    THEN Cparms(size, shape, compression_level)
    ELSE Cparms(size, <<>>, 0)

\* every axis of a unique dataset is fixed: its maximum extent is its extent
create_unique_dataset_generic(shape) ==
    NewDataset(shape, IF shape = <<>> THEN 0 ELSE shape[1])

\* -------------------------------------------- generic case <T, rank>: write
\* an append that writes over the last record
append_start_last(dim) == IF dim[1] > 0 THEN dim[1] - 1 ELSE 0

\* start[0] = dim[0]: the offset of the record an append creates
append_start(dim) == dim[1]

\* an append that grows every axis
append_dim_every_axis(dim) == [k \in 1..Len(dim) |-> dim[k] + 1]

\* dim[0]++: the extent after an append
append_dim(dim) == [dim EXCEPT ![1] = dim[1] + 1]

write_dataset_generic(d, rank, buf, out, index, ob) ==
    IF ~has_rank(d, rank + 1)
    THEN Fail("writer_incompatible", d, out)
    ELSE LET dim == d.dims IN
         IF index = H5S_UNLIMITED
         THEN LET dim1 == append_dim(dim) IN
              IF ExtendFails(d, dim1)
              THEN Fail("fixed_size", d, out)
              ELSE RawWrite(Extend(d, dim1), dim1, append_start(dim), buf,
                            out, ob)
         ELSE RawWrite(d, dim, index, buf, out, ob)

write_unique_dataset_generic(d, rank, buf, out, ob) ==
    IF ~has_rank(d, rank)
    THEN Fail("writer_incompatible", d, out)
    ELSE LET n == Prod(d.dims) IN
         IF n > Len(buf) /\ ob = "crash"
         THEN Result("crash", d, out, 0, FALSE, TRUE, NoStart)
         ELSE Result("ok", [d EXCEPT !.data = Source(buf, n)], out, 0,
                     FALSE, TRUE, NoStart)

\* --------------------------------------------- generic case <T, rank>: read
\* -index in ssize_t
Negate(index, nb) ==
    IF index # SSizeMin THEN 0 - index
    ELSE IF nb = "wrap" THEN SSizeMin ELSE 0 - index

\* the bounds check off by one at the upper end
index_out_of_bounds_above(index, len, nb) ==
    (index > len) \/ (Negate(index, nb) > len)

\* (index >= len) || ((-index) > len)
index_out_of_bounds(index, len, nb) ==
    (index >= len) \/ (Negate(index, nb) > len)

\* a negative index counted from the last record instead of from the end
resolve_index_from_last(index, len) ==
    IF index < 0 THEN index + len - 1 ELSE index

\* index = (index < 0) ? (index + len) : index
resolve_index(index, len) == IF index < 0 THEN index + len ELSE index

read_dataset_generic(d, rank, out, index, nb, ob) ==
    IF ~has_rank(d, rank + 1)
    THEN Fail("reader_incompatible", d, out)
    ELSE LET dim == d.dims
             len == dim[1]
         IN
         IF index = SSizeMin /\ nb = "trap"
         THEN Fail("crash", d, out)
         ELSE IF index_out_of_bounds(index, len, nb)
         THEN Fail("out_of_bounds", d, out)
         ELSE LET idx == resolve_index(index, len)
                  r == RawRead(d, dim, ToHsize(idx), out.elems, ob)
              IN Result(r.err, d, [out EXCEPT !.elems = r.buf],
                        IF r.err = "ok" THEN ToHsize(idx) ELSE 0,
                        TRUE, FALSE, ToHsize(idx))

\* the raw read made whatever the rank of the dataset
read_unique_dataset_generic_unchecked(d, rank, out, ob) ==
    IF Prod(d.dims) > Len(out.elems) /\ ob = "crash"
    THEN Result("crash", d, out, 0, TRUE, FALSE, NoStart)
    ELSE Result("ok", d, [out EXCEPT !.elems = Sink(out.elems, d.data)], 0,
                TRUE, FALSE, NoStart)

read_unique_dataset_generic(d, rank, out, ob) ==
    IF ~has_rank(d, rank)
    THEN Fail("reader_incompatible", d, out)
    ELSE IF Prod(d.dims) > Len(out.elems) /\ ob = "crash"
    THEN Result("crash", d, out, 0, TRUE, FALSE, NoStart)
    ELSE Result("ok", d, [out EXCEPT !.elems = Sink(out.elems, d.data)], 0,
                TRUE, FALSE, NoStart)

\* ------------------------------------------------------------ resizing
\* a vector left at the size the caller gave it
resize_vector_not(out, size) == out

\* std::vector<T>::resize(size): the elements kept, the new ones zero
resize_vector(out, size) ==
    [out EXCEPT !.shape = <<size>>,
                !.elems = [k \in 1..size |->
                              IF k <= Len(out.elems) THEN out.elems[k] ELSE 0]]

\* std::vector<boost::array<T,N>>::resize(size)
resize_vector_of_arrays(out, size) ==
    LET n == out.shape[2] IN
    [out EXCEPT !.shape = <<size, n>>,
                !.elems = [k \in 1..size * n |->
                              IF k <= Len(out.elems) THEN out.elems[k] ELSE 0]]

\* the coordinate along axis a of the element at row-major position p (from 0)
Coord(shape, p, a) ==
    (p \div Prod(SubSeq(shape, a + 1, Len(shape)))) % shape[a]

RECURSIVE Position(_, _, _, _)
\* the row-major position in shape old of the element at position p of shape
\* new, axes a.. only
Position(old, new, p, a) ==
    IF a > Len(new) THEN 0
    ELSE Coord(new, p, a) * Prod(SubSeq(old, a + 1, Len(old)))
         + Position(old, new, p, a + 1)

\* boost::multi_array::resize(shape): the elements whose indices both shapes
\* have are kept, the others are default-constructed
resize_multi_array(out, shape) ==
    [out EXCEPT !.shape = shape,
                !.elems = [k \in 1..Prod(shape) |->
                    IF \A a \in 1..Len(shape) :
                           Coord(shape, k - 1, a) < out.shape[a]
                    THEN out.elems[Position(out.shape, shape, k - 1, 1) + 1]
                    ELSE 0]]

\* ----------------------------------------------- chunks of each category
\* chunks of scalars
write_dataset_scalar(d, v, index, ob) ==
    write_dataset_generic(d, 0, v.elems, v, index, ob)

read_dataset_scalar(d, out, index, nb, ob) ==
    read_dataset_generic(d, 0, out, index, nb, ob)

\* chunks of fixed-size arrays
write_dataset_array(d, v, index, ob) ==
    IF ~has_extent_array(d, v.shape[1], 1)
    THEN Fail("writer_incompatible", d, v)
    ELSE write_dataset_generic(d, 1, v.elems, v, index, ob)

read_dataset_array(d, out, index, nb, ob) ==
    read_dataset_generic(d, 1, out, index, nb, ob)

\* chunks of multi-arrays of fixed rank
write_dataset_multi_array(d, v, index, ob) ==
    IF ~has_extent_multi(d, v.shape, 1)
    THEN Fail("writer_incompatible", d, v)
    ELSE write_dataset_generic(d, Len(v.shape), v.elems, v, index, ob)

read_dataset_multi_array(d, out, index, nb, ob) ==
    IF ~has_rank(d, Len(out.shape) + 1)
    THEN Fail("reader_incompatible", d, out)
    ELSE LET shape == Tail(d.dims)
             data == IF shape # out.shape
                     THEN resize_multi_array(out, shape) ELSE out
         IN read_dataset_generic(d, Len(out.shape), data, index, nb, ob)

\* chunks of vector containers holding scalars
write_dataset_vector(d, v, index, ob) ==
    IF has_rank(d, 2) /\ Len(v.elems) # d.dims[2]
    THEN Fail("writer_incompatible", d, v)
    ELSE write_dataset_generic(d, 1, v.elems, v, index, ob)

read_dataset_vector(d, out, index, nb, ob) ==
    IF ~has_rank(d, 2)
    THEN Fail("reader_incompatible", d, out)
    ELSE read_dataset_generic(d, 1, resize_vector(out, d.dims[2]), index, nb, ob)

\* chunks of vector containers holding fixed-size arrays
write_dataset_vector_of_arrays(d, v, index, ob) ==
    IF has_rank(d, 3) /\ v.shape[1] # d.dims[2]
    THEN Fail("writer_incompatible", d, v)
    ELSE write_dataset_generic(d, 2, v.elems, v, index, ob)

read_dataset_vector_of_arrays(d, out, index, nb, ob) ==
    IF ~has_rank(d, 3)
    THEN Fail("reader_incompatible", d, out)
    ELSE read_dataset_generic(d, 2, resize_vector_of_arrays(out, d.dims[2]),
                              index, nb, ob)

\* overload resolution on the value's type
write_dataset(d, v, index, ob) ==
    CASE v.cat = "scalar" -> write_dataset_scalar(d, v, index, ob)
      [] v.cat = "array"  -> write_dataset_array(d, v, index, ob)
      [] v.cat = "multi"  -> write_dataset_multi_array(d, v, index, ob)
      [] v.cat = "vec"    -> write_dataset_vector(d, v, index, ob)
      [] v.cat = "vecarr" -> write_dataset_vector_of_arrays(d, v, index, ob)

read_dataset(d, out, index, nb, ob) ==
    CASE out.cat = "scalar" -> read_dataset_scalar(d, out, index, nb, ob)
      [] out.cat = "array"  -> read_dataset_array(d, out, index, nb, ob)
      [] out.cat = "multi"  -> read_dataset_multi_array(d, out, index, nb, ob)
      [] out.cat = "vec"    -> read_dataset_vector(d, out, index, nb, ob)
      [] out.cat = "vecarr" -> read_dataset_vector_of_arrays(d, out, index, nb, ob)

\* ------------------------------------------ unique dataset, each category
write_unique_dataset_scalar(d, v, ob) ==
    write_unique_dataset_generic(d, 0, v.elems, v, ob)

read_unique_dataset_scalar(d, out, ob) ==
    read_unique_dataset_generic(d, 0, out, ob)

write_unique_dataset_array(d, v, ob) ==
    IF ~has_extent_array(d, v.shape[1], 0)
    THEN Fail("writer_incompatible", d, v)
    ELSE write_unique_dataset_generic(d, 1, v.elems, v, ob)

read_unique_dataset_array(d, out, ob) ==
    read_unique_dataset_generic(d, 1, out, ob)

write_unique_dataset_multi_array(d, v, ob) ==
    IF ~has_extent_multi(d, v.shape, 0)
    THEN Fail("writer_incompatible", d, v)
    ELSE write_unique_dataset_generic(d, Len(v.shape), v.elems, v, ob)

read_unique_dataset_multi_array(d, out, ob) ==
    IF ~has_rank(d, Len(out.shape))
    THEN Fail("reader_incompatible", d, out)
    ELSE LET data == IF d.dims # out.shape
                     THEN resize_multi_array(out, d.dims) ELSE out
         IN read_unique_dataset_generic(d, Len(out.shape), data, ob)

write_unique_dataset_vector(d, v, ob) ==
    IF has_rank(d, 1) /\ Len(v.elems) # d.dims[1]
    THEN Fail("writer_incompatible", d, v)
    ELSE write_unique_dataset_generic(d, 1, v.elems, v, ob)

read_unique_dataset_vector(d, out, ob) ==
    IF ~has_rank(d, 1)
    THEN Fail("reader_incompatible", d, out)
    ELSE read_unique_dataset_generic(d, 1, resize_vector(out, d.dims[1]), ob)

write_unique_dataset_vector_of_arrays(d, v, ob) ==
    IF has_rank(d, 2) /\ v.shape[1] # d.dims[1]
    THEN Fail("writer_incompatible", d, v)
    ELSE write_unique_dataset_generic(d, 2, v.elems, v, ob)

read_unique_dataset_vector_of_arrays(d, out, ob) ==
    IF ~has_rank(d, 2)
    THEN Fail("reader_incompatible", d, out)
    ELSE read_unique_dataset_generic(d, 2,
             resize_vector_of_arrays(out, d.dims[1]), ob)

write_unique_dataset(d, v, ob) ==
    CASE v.cat = "scalar" -> write_unique_dataset_scalar(d, v, ob)
      [] v.cat = "array"  -> write_unique_dataset_array(d, v, ob)
      [] v.cat = "multi"  -> write_unique_dataset_multi_array(d, v, ob)
      [] v.cat = "vec"    -> write_unique_dataset_vector(d, v, ob)
      [] v.cat = "vecarr" -> write_unique_dataset_vector_of_arrays(d, v, ob)

read_unique_dataset(d, out, ob) ==
    CASE out.cat = "scalar" -> read_unique_dataset_scalar(d, out, ob)
      [] out.cat = "array"  -> read_unique_dataset_array(d, out, ob)
      [] out.cat = "multi"  -> read_unique_dataset_multi_array(d, out, ob)
      [] out.cat = "vec"    -> read_unique_dataset_vector(d, out, ob)
      [] out.cat = "vecarr" -> read_unique_dataset_vector_of_arrays(d, out, ob)

\* --------------------------------------- unique dataset, opened by its name
\* H5Dopen(loc, name): an id of the dataset of the name, one more id open; a
\* negative value when the name holds no dataset
H5Dopen(d, h) ==
    IF d.exists THEN [hid |-> 1, handles |-> h + 1]
    ELSE [hid |-> 0 - 1, handles |-> h]

\* H5Dclose(hid) of an id that is open
H5Dclose(h) == h - 1

\* read_unique_dataset(hid, data) converts the id to a temporary H5::DataSet:
\* depending on the release of the library, the temporary shares the id (it
\* adds a reference and drops it when destroyed) or takes it over (it closes
\* the id when destroyed, after the inner call or while its exception unwinds,
\* and the H5Dclose that follows finds no id to close)
IdConversions == {"shared", "taken"}

\* read_unique_dataset(fg, name, data): eauto and handles afterwards, and the
\* result of the call.  H5E_BEGIN_TRY saves the error reporting and turns it
\* off, H5E_END_TRY puts back what was saved; an exception thrown in between
\* leaves the block without reaching H5E_END_TRY
read_unique_dataset_by_name(d, h, ea, out, ob, conv) ==
    LET saved == ea
        o == H5Dopen(d, h)
    IN
    IF o.hid > 0
    THEN LET r == read_unique_dataset(d, out, ob)
             h1 == IF conv = "taken" THEN H5Dclose(o.handles) ELSE o.handles
         IN IF r.err # "ok"
            THEN [r |-> r, handles |-> h1, eauto |-> FALSE]
            ELSE [r |-> r,
                  handles |-> IF conv = "taken" THEN h1 ELSE H5Dclose(h1),
                  eauto |-> saved]
    ELSE [r |-> Fail("not_found", d, out), handles |-> o.handles,
          eauto |-> FALSE]

\* ------------------------------------------------- creation, by category
\* create_dataset<T>(fg, name, [shape | size,] max_size): the shape is empty
\* for a scalar, (static_size) for an array, the shape passed for a
\* multi_array, (size) for a vector, (size, static_size) for a vector of arrays
create_dataset(ts, max_size) == create_dataset_generic(ts.shape, max_size)

create_unique_dataset(ts) == create_unique_dataset_generic(ts.shape)

\* "remove dataset if it exists", H5Dcreate, and the error thrown when the
\* library returns no dataset: the end of create_dataset and of
\* create_unique_dataset, d the dataset of the name before the call
replace_dataset(d, new) ==
    LET c == H5Dcreate(H5Ldelete(d), new) IN
    IF c.id < 0
    THEN Fail("create_failed", c.ds, NoValue)
    ELSE Fail("ok", c.ds, NoValue)

\* -------------------------------------------------------------- hierarchy
\* the names of the links of a group
Names == {"a", "b"}

RECURSIVE PathsOfLen(_)
PathsOfLen(n) ==
    IF n = 0 THEN {<<>>}
    ELSE {<<x>> \o p : x \in Names, p \in PathsOfLen(n - 1)}

\* the paths "a", "a/b", ... relative to the location passed
Paths == UNION {PathsOfLen(n) : n \in 1..MaxDepth}

\* a file that holds no link
NoLinks == [p \in Paths |-> "none"]

\* the paths of the groups a path leads through
Prefixes(p) == {SubSeq(p, 1, n) : n \in 1..Len(p) - 1}

\* the paths below a path
Below(p) == {q \in Paths : Len(q) > Len(p) /\ SubSeq(q, 1, Len(p)) = p}

\* the library resolves a path through groups only
Resolves(t, p) == \A q \in Prefixes(p) : t[q] = "group"

\* the outcome of a call on the hierarchy: the error raised, the value
\* returned, and the links, open ids and error reporting afterwards
Outcome(err, ret, t, h, ea) ==
    [err |-> err, ret |-> ret, tree |-> t, handles |-> h, eauto |-> ea]

\* H5Gopen(loc, path): an id of the group at the path, one more id open; a
\* negative value when the path holds no group
H5Gopen(t, p, h) ==
    IF Resolves(t, p) /\ t[p] = "group"
    THEN [hid |-> 1, handles |-> h + 1]
    ELSE [hid |-> 0 - 1, handles |-> h]

\* H5Gclose(hid) of an id that is open
H5Gclose(h) == h - 1

\* the dataset a path holds, as far as H5Dopen looks at it
DatasetAt(t, p) == [exists |-> Resolves(t, p) /\ t[p] = "dataset"]

\* h5xx/property.hpp: the link creation property list that makes the library
\* create the missing intermediate groups of a path
create_intermediate_group_property == [create_intermediate_group |-> TRUE]

\* the links after a link of kind k is created at p, the missing groups on
\* the way with it when the property list says so; refused (the links as they
\* were, FALSE) when the path is taken, leads through a dataset, or lacks a
\* group on the way
Link(t, p, k, pl) ==
    IF \/ t[p] # "none"
       \/ \E q \in Prefixes(p) : t[q] = "dataset"
       \/ ~pl.create_intermediate_group /\ ~Resolves(t, p)
    THEN [made |-> FALSE, tree |-> t]
    ELSE [made |-> TRUE,
          tree |-> [q \in Paths |->
                      IF q = p THEN k
                      ELSE IF q \in Prefixes(p) THEN "group"
                      ELSE t[q]]]

\* H5Gcreate(loc, path, lcpl, ...): the id of the group created, or a negative
\* value
H5Gcreate(t, p, pl) ==
    LET l == Link(t, p, "group", pl) IN
    [hid |-> IF l.made THEN 1 ELSE 0 - 1, tree |-> l.tree]

\* H5Ldelete(loc, path) in the hierarchy: the link at the path is removed,
\* and what a group held goes with it; no link is an error the caller
\* suppresses
Unlink(t, p) ==
    IF ~Resolves(t, p) \/ t[p] = "none" THEN t
    ELSE [q \in Paths |-> IF q = p \/ q \in Below(p) THEN "none" ELSE t[q]]

\* exists_group without the H5Gclose
exists_group_unclosed(t, p, h, ea) ==
    LET o == H5Gopen(t, p, h) IN Outcome("ok", o.hid > 0, t, o.handles, ea)

\* exists_group(fg, name): H5Gopen and, of the id it gave, H5Gclose between
\* H5E_BEGIN_TRY and H5E_END_TRY, which puts the error reporting back
exists_group(t, p, h, ea) ==
    LET saved == ea
        o == H5Gopen(t, p, h)
        h1 == IF o.hid > 0 THEN H5Gclose(o.handles) ELSE o.handles
    IN Outcome("ok", o.hid > 0, t, h1, saved)

\* exists_dataset(fg, name)
exists_dataset(t, p, h, ea) ==
    LET saved == ea
        o == H5Dopen(DatasetAt(t, p), h)
        h1 == IF o.hid > 0 THEN H5Dclose(o.handles) ELSE o.handles
    IN Outcome("ok", o.hid > 0, t, h1, saved)

\* open_group that only opens
open_group_open_only(t, p, h, ea) ==
    IF H5Gopen(t, p, h).hid < 0
    THEN Outcome("create_failed", p, t, h, ea)
    ELSE Outcome("ok", p, t, h, ea)

\* open_group(fg, path): the id opened or created passes to the caller in
\* the H5::Group returned; the error names the path
open_group(t, p, h, ea) ==
    LET saved == ea
        o == H5Gopen(t, p, h)
    IN
    IF o.hid < 0
    THEN LET pl == create_intermediate_group_property
             c == H5Gcreate(t, p, pl)
         IN IF c.hid < 0
            THEN Outcome("create_failed", p, c.tree, h, saved)
            ELSE Outcome("ok", p, c.tree, h, saved)
    ELSE Outcome("ok", p, t, h, saved)

\* what create_dataset and create_unique_dataset do to the hierarchy when the
\* name is a path: "remove dataset if it exists", then H5Dcreate with the
\* property list of the intermediate groups; the error names the path
create_dataset_at(t, p, h, ea) ==
    LET saved == ea
        pl == create_intermediate_group_property
        l == Link(Unlink(t, p), p, "dataset", pl)
    IN
    IF ~l.made
    THEN Outcome("create_failed", p, l.tree, h, saved)
    ELSE Outcome("ok", p, l.tree, h, saved)

\* ------------------------------------------------------------------ state
VARIABLES
    ds,       \* the dataset "x" of the file
    created,  \* how it was created: kind, typed shape, max_size
    hist,     \* the values of its own type appended to it (chunked) or the one
              \* written to it (unique) since, while it holds nothing else
    last,     \* the call the caller is returning from: its arguments, its
              \* outcome and the dataset before it; "idle" between calls
    cparms,   \* the creation properties the dataset was created with
    tree,     \* the links of the file at the paths other than "x": which hold
              \* a group, which a dataset
    handles,  \* the ids this layer opened in the library and has not closed
    eauto     \* whether the library's automatic error reporting is on

vars == <<ds, created, hist, last, cparms, tree, handles, eauto>>

\* the file outside the dataset "x"
file == <<tree, handles, eauto>>

Call(op, arg, index, r, pre) ==
    [op |-> op, arg |-> arg, index |-> index, err |-> r.err, ret |-> r.ret,
     out |-> r.out, pre |-> pre, rawRead |-> r.rawRead,
     rawWrite |-> r.rawWrite, start |-> r.start]

Idle == Call("idle", NoValue, 0, Fail("ok", NoDataset, NoValue), NoDataset)

MaxSizes == {H5S_UNLIMITED} \cup (1..MaxRecords)
WriteIndices == {H5S_UNLIMITED} \cup (0..MaxLen)
ReadIndices == {SSizeMin, SSizeMax} \cup ((0 - (MaxLen + 1))..MaxLen)

\* the outcomes of undefined behaviour open to a call
NegChoices(index) == IF index = SSizeMin THEN NegOutcomes ELSE {"wrap"}
OverrunChoices(c) ==
    IF c.cat \in {"array", "vecarr"} THEN OverrunOutcomes ELSE {"run"}

Init ==
    /\ ds = NoDataset
    /\ created = [kind |-> "none", ts |-> [cat |-> "none", shape |-> <<>>],
                  max_size |-> 0]
    /\ hist = [vals |-> <<>>, pure |-> TRUE]
    /\ last = Idle
    /\ cparms = NoCparms
    /\ tree = NoLinks
    /\ handles = 0
    /\ eauto = TRUE

\* the type and shape a dataset is asked for, as the argument of the call
Asked(ts) == [cat |-> ts.cat, shape |-> ts.shape, elems |-> <<>>]

CreateDataset ==
    /\ last.op = "idle"
    /\ UNCHANGED file
    /\ \E ts \in TypedShapes, max_size \in MaxSizes :
        LET r == replace_dataset(ds, create_dataset(ts, max_size)) IN
        /\ ds' = r.ds
        /\ created' = IF r.err = "ok"
                      THEN [kind |-> "chunked", ts |-> ts, max_size |-> max_size]
                      ELSE created
        /\ hist' = IF r.err = "ok" THEN [vals |-> <<>>, pure |-> TRUE] ELSE hist
        /\ cparms' = IF r.err = "ok"
                     THEN create_dataset_cparms(SizeofT, ts.shape) ELSE cparms
        /\ last' = Call("create_dataset", Asked(ts), 0, r, ds)

\* create_unique_dataset of a value type ts whose elements have size bytes
CreateUnique(size, ts) ==
    LET r == replace_dataset(ds, create_unique_dataset(ts)) IN
    /\ ds' = r.ds
    /\ created' = IF r.err = "ok"
                  THEN [kind |-> "unique", ts |-> ts, max_size |-> 0]
                  ELSE created
    /\ hist' = IF r.err = "ok" THEN [vals |-> <<>>, pure |-> TRUE] ELSE hist
    /\ cparms' = IF r.err = "ok"
                 THEN create_unique_dataset_cparms(size, ts.shape)
                 ELSE cparms
    /\ last' = Call("create_unique_dataset", Asked(ts), 0, r, ds)

CreateUniqueDataset ==
    /\ last.op = "idle"
    /\ UNCHANGED file
    /\ \E ts \in TypedShapes : CreateUnique(SizeofT, ts)

\* the shapes of rank 0, 1 and 2 a unique dataset is created with through
\* create_unique_dataset<T, rank>(fg, name, shape)
LayoutShapes ==
    {<<>>}
    \cup {<<a>> : a \in 1..MaxLayoutExt}
    \cup {<<a, b>> : a \in 1..MaxLayoutExt, b \in 1..MaxLayoutExt}

\* create_unique_dataset<T, rank> for every fundamental T and every shape
CreateUniqueDatasetOf ==
    /\ last.op = "idle"
    /\ UNCHANGED file
    /\ \E size \in ElementSizes, shape \in LayoutShapes :
        CreateUnique(size, [cat |-> IF shape = <<>> THEN "scalar" ELSE "multi",
                            shape |-> shape])

\* an unlimited dataset is grown to MaxLen records at most
MayGrow(d, index) ==
    IF index # H5S_UNLIMITED \/ d.dims = <<>> \/ d.max0 # H5S_UNLIMITED
    THEN TRUE
    ELSE d.dims[1] < MaxLen

\* the record of appends: the values of the dataset's own type appended since
\* its creation, as long as nothing else was written
Unknown == [vals |-> <<>>, pure |-> FALSE]

TypeOf(c) == [cat |-> c.cat, shape |-> c.shape]

Appended(h, v, r) ==
    IF r.err # "ok" THEN (IF r.ds = ds THEN h ELSE Unknown)
    ELSE IF h.pure /\ created.kind = "chunked" /\ TypeOf(v) = created.ts
    THEN [h EXCEPT !.vals = Append(@, v.elems)]
    ELSE Unknown

\* the record of a unique dataset: the value of its own type written last
Written(h, v, r) ==
    IF r.err # "ok" THEN (IF r.ds = ds THEN h ELSE Unknown)
    ELSE IF created.kind = "unique" /\ TypeOf(v) = created.ts
    THEN [vals |-> <<v.elems>>, pure |-> TRUE]
    ELSE Unknown

WriteDataset ==
    /\ last.op = "idle"
    /\ ds.exists
    /\ UNCHANGED file
    /\ \E v \in Values, index \in WriteIndices :
        \E ob \in OverrunChoices(v) :
        LET r == write_dataset(ds, v, index, ob) IN
        /\ MayGrow(ds, index)
        /\ ds' = r.ds
        /\ hist' = IF index = H5S_UNLIMITED
                   THEN Appended(hist, v, r)
                   ELSE Unknown
        /\ last' = Call("write_dataset", v, index, r, ds)
        /\ UNCHANGED <<created, cparms>>

ReadDataset ==
    /\ last.op = "idle"
    /\ ds.exists
    /\ UNCHANGED file
    /\ \E out \in OutContainers, index \in ReadIndices :
        \E nb \in NegChoices(index), ob \in OverrunChoices(out) :
        LET r == read_dataset(ds, out, index, nb, ob) IN
        /\ ds' = r.ds
        /\ last' = Call("read_dataset", out, index, r, ds)
        /\ UNCHANGED <<created, hist, cparms>>

WriteUniqueDataset ==
    /\ last.op = "idle"
    /\ ds.exists
    /\ UNCHANGED file
    /\ \E v \in Values :
        \E ob \in OverrunChoices(v) :
        LET r == write_unique_dataset(ds, v, ob) IN
        /\ ds' = r.ds
        /\ hist' = Written(hist, v, r)
        /\ last' = Call("write_unique_dataset", v, 0, r, ds)
        /\ UNCHANGED <<created, cparms>>

ReadUniqueDataset ==
    /\ last.op = "idle"
    /\ ds.exists
    /\ UNCHANGED file
    /\ \E out \in OutContainers :
        \E ob \in OverrunChoices(out) :
        LET r == read_unique_dataset(ds, out, ob) IN
        /\ ds' = r.ds
        /\ last' = Call("read_unique_dataset", out, 0, r, ds)
        /\ UNCHANGED <<created, hist, cparms>>

\* the file outside the dataset as it was before a call
Before == [handles |-> handles, eauto |-> eauto, tree |-> tree]

ReadUniqueDatasetByName ==
    /\ last.op = "idle"
    /\ handles < MaxHandles
    /\ \E out \in OutContainers :
        \E ob \in OverrunChoices(out), conv \in IdConversions :
        LET c == read_unique_dataset_by_name(ds, handles, eauto, out, ob, conv)
        IN
        /\ ds' = c.r.ds
        /\ handles' = c.handles
        /\ eauto' = c.eauto
        /\ last' = Call("read_unique_dataset_by_name", out, 0, c.r, ds)
                       @@ [before |-> Before]
        /\ UNCHANGED <<created, hist, cparms, tree>>

\* a call on the hierarchy, its outcome and the file before it
PathCall(op, path, c) ==
    [op |-> op, path |-> path, err |-> c.err, ret |-> c.ret, before |-> Before]

\* the call made with outcome c
Made(op, path, c) ==
    /\ tree' = c.tree
    /\ handles' = c.handles
    /\ eauto' = c.eauto
    /\ last' = PathCall(op, path, c)
    /\ UNCHANGED <<ds, created, hist, cparms>>

ExistsGroup ==
    /\ last.op = "idle"
    /\ \E path \in Paths :
        Made("exists_group", path, exists_group(tree, path, handles, eauto))

ExistsDataset ==
    /\ last.op = "idle"
    /\ \E path \in Paths :
        Made("exists_dataset", path, exists_dataset(tree, path, handles, eauto))

OpenGroup ==
    /\ last.op = "idle"
    /\ \E path \in Paths :
        Made("open_group", path, open_group(tree, path, handles, eauto))

CreateDatasetAt ==
    /\ last.op = "idle"
    /\ \E path \in Paths :
        Made("create_dataset_at", path,
             create_dataset_at(tree, path, handles, eauto))

\* the caller takes the outcome of the call and goes on
Return ==
    /\ last.op # "idle"
    /\ last' = Idle
    /\ UNCHANGED <<ds, created, hist, cparms, file>>

\* the chunked dataset and its operations
NextChunked ==
    \/ CreateDataset
    \/ WriteDataset
    \/ ReadDataset
    \/ Return

\* the unique dataset and its operations
NextUnique ==
    \/ CreateUniqueDataset
    \/ WriteUniqueDataset
    \/ ReadUniqueDataset
    \/ Return

\* the dataset and every operation on it through its handle
Next ==
    \/ CreateDataset
    \/ CreateUniqueDataset
    \/ WriteDataset
    \/ ReadDataset
    \/ WriteUniqueDataset
    \/ ReadUniqueDataset
    \/ Return

\* the unique dataset created with every element size and shape
NextLayout ==
    \/ CreateUniqueDatasetOf
    \/ Return

\* the unique dataset read by its name
NextNamed ==
    \/ CreateUniqueDataset
    \/ WriteUniqueDataset
    \/ ReadUniqueDatasetByName
    \/ Return

\* the groups and datasets of the file: probed, opened, created
NextTree ==
    \/ ExistsGroup
    \/ ExistsDataset
    \/ OpenGroup
    \/ CreateDatasetAt
    \/ Return

Spec == Init /\ [][Next]_vars

SpecTree == Init /\ [][NextTree]_vars

SpecNamed == Init /\ [][NextNamed]_vars

SpecLayout == Init /\ [][NextLayout]_vars

SpecChunked == Init /\ [][NextChunked]_vars

SpecUnique == Init /\ [][NextUnique]_vars

\* ================================================================ claims
\* the rank of a container's type
Rank(c) == Len(c.shape)

\* a container c of the type the dataset was created for: the same category
\* and the same static extents (the extents of a resizable container are not
\* part of its type)
SameType(c, ts) ==
    /\ c.cat = ts.cat
    /\ c.cat = "array" => c.shape = ts.shape
    /\ c.cat = "vecarr" => c.shape[2] = ts.shape[2]

\* the record at offset i (from 0) of a chunked dataset
Record(d, i) ==
    LET n == Prod(Tail(d.dims)) IN SubSeq(d.data, i * n + 1, i * n + n)

Appending == last.op = "write_dataset" /\ last.index = H5S_UNLIMITED
WritingAt == last.op = "write_dataset" /\ last.index # H5S_UNLIMITED
Reading == last.op = "read_dataset"

\* a chunked dataset created unlimited that holds the values of its own type
\* appended to it and nothing else
OnlyAppended ==
    /\ created.kind = "chunked"
    /\ created.max_size = H5S_UNLIMITED
    /\ hist.pure

\* C1: after appending v0..v(n-1) to a freshly created unlimited chunked
\* dataset, a read at index i in 0..n-1 yields vi and a read at index -j in
\* -1..-n yields v(n-j): so index -1 yields v(n-1) and index -n yields v0.
AppendReadRoundTrip ==
    LET n == Len(hist.vals) IN
    (Reading /\ OnlyAppended /\ SameType(last.arg, created.ts)
        /\ last.index >= 0 - n /\ last.index < n)
    => /\ last.err = "ok"
       /\ last.out.elems =
              hist.vals[(IF last.index < 0 THEN n + last.index ELSE last.index) + 1]
       /\ last.out.shape = created.ts.shape

\* two different values appended, the first read back at index -n
AppendReadRoundTripWitness ==
    /\ Reading /\ OnlyAppended /\ SameType(last.arg, created.ts)
    /\ Len(hist.vals) = 2
    /\ hist.vals[1] # hist.vals[2]
    /\ last.index = 0 - 2
    /\ last.err = "ok"
    /\ last.out.elems = hist.vals[1]
    /\ last.arg.shape # last.out.shape

\* a chunked dataset created with a finite max_size
FixedSize == created.kind = "chunked" /\ created.max_size # H5S_UNLIMITED

\* C2 as claimed: of the appends to a chunked dataset created with a finite
\* max_size = m, the first m succeed and the (m+1)-th is the first to fail
\* with the fixed-size error.
FirstAppendsSucceed ==
    (Appending /\ FixedSize /\ hist.pure /\ TypeOf(last.arg) = created.ts)
    => \/ last.err = "ok"
       \/ last.err = "fixed_size" /\ Len(hist.vals) = created.max_size

\* C2 as amended: a chunked dataset created with a finite max_size = m >= 1
\* holds m records from its creation on, each readable, and every append to
\* it, the first included, fails with the fixed-size error and leaves it as
\* it was.
FixedSizeNeverGrows ==
    FixedSize =>
        /\ ds.dims[1] = created.max_size
        /\ (last.op = "create_dataset") => \A p \in 1..Len(ds.data) : ds.data[p] = Fill
        /\ (Appending /\ TypeOf(last.arg) = created.ts)
               => last.err = "fixed_size" /\ ds = last.pre
        /\ (Reading /\ SameType(last.arg, created.ts)
                /\ last.index >= 0 /\ last.index < created.max_size)
               => /\ last.err = "ok"
                  /\ last.out.elems = Record(ds, last.index)

\* the first append to a dataset created with a finite max_size has failed
FixedSizeNeverGrowsWitness ==
    /\ Appending /\ FixedSize /\ hist.pure /\ hist.vals = <<>>
    /\ TypeOf(last.arg) = created.ts
    /\ last.err = "fixed_size"
    /\ ds.dims[1] = created.max_size

\* the type of the container passed has the rank of the dataset's records
RankFits == Len(last.pre.dims) = Rank(last.arg) + 1

\* C3: a read of a chunked dataset of length n at index n or at index -(n+1)
\* fails with the out-of-bounds error and no raw read is made.
ReadPastEndRejected ==
    (Reading /\ created.kind = "chunked" /\ RankFits
        /\ (\/ last.index = last.pre.dims[1]
            \/ last.index = 0 - (last.pre.dims[1] + 1)))
    => /\ last.err = "out_of_bounds"
       /\ ~last.rawRead
       /\ last.start = NoStart

\* index -(n+1) rejected on a dataset of n >= 1 records
ReadPastEndRejectedWitness ==
    /\ Reading /\ created.kind = "chunked" /\ RankFits
    /\ last.pre.dims[1] >= 1
    /\ last.index = 0 - (last.pre.dims[1] + 1)
    /\ last.err = "out_of_bounds"

\* the value passed is accepted by the checks of its overload of write_dataset
\* for the dataset as it was: the rank, and the extents the overload compares
Accepted ==
    /\ Len(last.pre.dims) = Rank(last.arg) + 1
    /\ last.arg.cat \in {"array", "multi"} => last.arg.shape = Tail(last.pre.dims)
    /\ last.arg.cat \in {"vec", "vecarr"} => last.arg.shape[1] = last.pre.dims[2]

\* C4 as claimed: a write at an explicit index i >= len of a chunked dataset
\* of length len fails with an out-of-range error and changes neither the
\* length nor any record.
WritePastEndOutOfRange ==
    (WritingAt /\ created.kind = "chunked" /\ Accepted
        /\ last.index >= last.pre.dims[1])
    => /\ last.err = "out_of_bounds"
       /\ ds = last.pre

\* C5: a successful append to a chunked dataset of axis-0 extent len leaves
\* the extent at len + 1 and the other extents and the records 0..len-1 as
\* they were, and the record at offset len holds the elements of the value
\* appended (all of them when the value has the record's size).
AppendAddsOneRecord ==
    (Appending /\ created.kind = "chunked" /\ last.err = "ok")
    => LET len == last.pre.dims[1]
           rec == Record(ds, len)
       IN /\ ds.dims = [last.pre.dims EXCEPT ![1] = len + 1]
          /\ Len(ds.data) = Len(last.pre.data) + Len(rec)
          /\ \A i \in 0..len - 1 : Record(ds, i) = Record(last.pre, i)
          /\ last.start = len
          /\ \A k \in 1..Len(rec) : k <= Len(last.arg.elems) => rec[k] = last.arg.elems[k]
          /\ Len(rec) = Len(last.arg.elems) => rec = last.arg.elems

\* a second record appended after a first one that differs from it
AppendAddsOneRecordWitness ==
    /\ Appending /\ created.kind = "chunked" /\ last.err = "ok"
    /\ last.pre.dims[1] = 1
    /\ ds.dims[1] = 2
    /\ Record(ds, 1) = last.arg.elems
    /\ Record(ds, 0) # Record(ds, 1)
    /\ Record(ds, 0) = Record(last.pre, 0)

\* the type of the container passed fits the dataset: the rank, and the
\* static extents of the type, are those of the dataset's records
TypeFits ==
    /\ RankFits
    /\ last.arg.cat = "array" => last.arg.shape[1] = last.pre.dims[2]
    /\ last.arg.cat = "vecarr" => last.arg.shape[2] = last.pre.dims[3]

\* C6: a read of a chunked dataset of length len at index i succeeds exactly
\* when -len <= i <= len - 1; it then reads the record at offset i (i >= 0)
\* or len + i (i < 0) and returns that offset, which lies in [0, len).
ReadResolvesIndex ==
    (Reading /\ created.kind = "chunked" /\ TypeFits)
    => LET len == last.pre.dims[1]
           off == IF last.index >= 0 THEN last.index ELSE len + last.index
       IN /\ last.err = "ok" <=> (0 - len <= last.index /\ last.index <= len - 1)
          /\ last.err = "ok" =>
                /\ last.ret = off
                /\ last.start = off
                /\ 0 <= last.ret /\ last.ret < len
                /\ last.out.elems = Record(last.pre, off)

\* a negative index resolved to an offset that is not the last one
ReadResolvesIndexWitness ==
    /\ Reading /\ created.kind = "chunked" /\ TypeFits
    /\ last.pre.dims[1] = 2
    /\ last.index = 0 - 2
    /\ last.err = "ok"
    /\ last.ret = 0
    /\ Record(last.pre, 0) # Record(last.pre, 1)

\* C7: a value written with write_unique_dataset to a unique dataset created
\* with the value's shape is read back by read_unique_dataset, elements and
\* shape, into a container of the value's type, whatever the shape the
\* container had.
UniqueRoundTrip ==
    (last.op = "read_unique_dataset" /\ created.kind = "unique"
        /\ hist.pure /\ Len(hist.vals) = 1 /\ SameType(last.arg, created.ts))
    => /\ last.err = "ok"
       /\ last.out.elems = hist.vals[1]
       /\ last.out.shape = created.ts.shape

\* a value of more than one element read back into a container that had
\* another shape
UniqueRoundTripWitness ==
    /\ last.op = "read_unique_dataset" /\ created.kind = "unique"
    /\ hist.pure /\ Len(hist.vals) = 1 /\ SameType(last.arg, created.ts)
    /\ last.arg.shape # created.ts.shape
    /\ Len(hist.vals[1]) > 1
    /\ last.err = "ok"
    /\ last.out.elems = hist.vals[1]

ChunkedOp == last.op \in {"read_dataset", "write_dataset"}
UniqueOp == last.op \in {"read_unique_dataset", "write_unique_dataset"}
ReadOp == last.op \in {"read_dataset", "read_unique_dataset"}

\* the call failed with the incompatible-dataspace error of its side
Incompatible ==
    last.err = IF ReadOp THEN "reader_incompatible" ELSE "writer_incompatible"

\* C8: a read or write of a value whose type has rank r on a dataset whose
\* rank is not r (unique operations) or not r + 1 (chunked operations) fails
\* with the incompatible-dataspace error before any raw read or write: the
\* dataset and the caller's container are left as they were.
RankMismatchRejected ==
    ((UniqueOp /\ Len(last.pre.dims) # Rank(last.arg))
        \/ (ChunkedOp /\ Len(last.pre.dims) # Rank(last.arg) + 1))
    => /\ Incompatible
       /\ ~last.rawRead
       /\ ~last.rawWrite
       /\ ds = last.pre
       /\ last.out = last.arg

\* read_unique_dataset of a scalar on a dataset of rank 2
RankMismatchRejectedWitness ==
    /\ last.op = "read_unique_dataset"
    /\ last.arg.cat = "scalar"
    /\ Len(last.pre.dims) = 2
    /\ Incompatible
    /\ last.out = last.arg

\* the extents of the dataset that correspond to the axes of the value
ValueExtents ==
    IF ChunkedOp THEN Tail(last.pre.dims) ELSE last.pre.dims

\* an extent the type of the value fixes differs from the dataset's: the N of
\* an array, the inner N of a vector of arrays, the length of a vector written
ExtentDiffers ==
    LET ext == ValueExtents IN
    /\ Len(ext) = Rank(last.arg)
    /\ \/ last.arg.cat = "array" /\ last.arg.shape[1] # ext[1]
       \/ last.arg.cat = "vecarr" /\ last.arg.shape[2] # ext[2]
       \/ last.arg.cat \in {"vec", "vecarr"} /\ ~ReadOp /\ last.arg.shape[1] # ext[1]

\* the index passed to a chunked operation is valid for the dataset
IndexValid ==
    LET len == last.pre.dims[1] IN
    IF last.op = "read_dataset"
    THEN 0 - len <= last.index /\ last.index < len
    ELSE last.index = H5S_UNLIMITED \/ last.index < len

\* C9 as claimed: a read or write of a value whose type fixes a per-axis
\* extent that differs from the corresponding extent of the dataset fails with
\* the shape-mismatch error instead of transferring data.  Stated for the
\* calls whose index is valid and whose container holds at least the elements
\* the transfer moves, where no other error and no overrun comes first.
ExtentMismatchRejected ==
    ((ChunkedOp \/ UniqueOp) /\ ExtentDiffers
        /\ (ChunkedOp => IndexValid)
        /\ Len(last.arg.elems) >= Prod(ValueExtents))
    => /\ Incompatible
       /\ ~last.rawRead
       /\ ~last.rawWrite

\* C10: in a chunked dataset every extent other than that of axis 0 is, after
\* any appends, writes by offset and reads, the one it was created with.
RecordShapeFixed ==
    created.kind = "chunked" => Tail(ds.dims) = created.ts.shape

\* a record written by offset into a dataset of rank 3 grown to two records
RecordShapeFixedWitness ==
    /\ created.kind = "chunked"
    /\ WritingAt /\ last.err = "ok" /\ ds # last.pre
    /\ ds.dims[1] = 2
    /\ Len(created.ts.shape) = 2
    /\ Tail(ds.dims) = created.ts.shape

\* C16 as claimed: a chunked read that fails with the out-of-bounds error
\* leaves the caller's output container, shape and elements, exactly as it
\* was before the call, for every value category.
ReadOutOfBoundsKeepsContainer ==
    (Reading /\ created.kind = "chunked" /\ last.err = "out_of_bounds")
    => last.out = last.arg

\* C17 as claimed: for every length len >= 0 of a chunked dataset and every
\* index of the signed index type, the most negative one included, a read at
\* an index outside [-len, len) fails with the out-of-bounds error and the
\* index is never turned into a hyperslab offset.
IndexOutsideRangeRejected ==
    (Reading /\ created.kind = "chunked" /\ RankFits
        /\ ~(0 - last.pre.dims[1] <= last.index
                /\ last.index < last.pre.dims[1]))
    => /\ last.err = "out_of_bounds"
       /\ last.start = NoStart
       /\ ~last.rawRead

\* C11: create_unique_dataset succeeds whether or not the name holds a
\* dataset; called on a name that holds a unique dataset of another shape, it
\* leaves under the name a dataset of exactly the shape asked for, every
\* element holding the fill value: none of the first dataset's content.
RecreateUniqueReplaces ==
    (last.op = "create_unique_dataset")
    => /\ last.err = "ok"
       /\ (last.pre.exists /\ last.pre.dims # last.arg.shape)
              => /\ ds.exists
                 /\ ds.dims = last.arg.shape
                 /\ Len(ds.data) = Prod(last.arg.shape)
                 /\ \A p \in 1..Len(ds.data) : ds.data[p] = Fill
                 /\ created.ts = TypeOf(last.arg)

\* a unique dataset that had been written re-created with fewer axes
RecreateUniqueReplacesWitness ==
    /\ last.op = "create_unique_dataset"
    /\ last.err = "ok"
    /\ last.pre.exists
    /\ Len(last.pre.dims) = 2
    /\ \A p \in 1..Len(last.pre.data) : last.pre.data[p] # Fill
    /\ Len(last.arg.shape) = 1
    /\ ds.dims = last.arg.shape

\* the bytes of one whole instance of the dataset: the element size times
\* the product of all axis extents
InstanceBytes == cparms.size * Prod(ds.dims)

\* C14 as claimed: create_unique_dataset enables chunked layout and
\* compression exactly when the byte size of one whole instance exceeds 64
\* bytes, for every rank and shape.
ChunkedIffInstanceLarge ==
    (last.op = "create_unique_dataset" /\ last.err = "ok")
    => ((cparms.chunk # <<>> /\ cparms.deflate > 0) <=> InstanceBytes > MinBytes)

ReadingByName == last.op = "read_unique_dataset_by_name"

\* C15 as claimed: read_unique_dataset(location, name, out) fails with the
\* not-found error when the name holds no dataset, and on every exit path,
\* the inner read succeeding or failing, the id it opened is closed and the
\* error reporting it turned off is as it was before the call.
ReadByNameCleansUp ==
    (ReadingByName /\ last.err # "crash")
    => /\ ~last.pre.exists => last.err = "not_found"
       /\ handles = last.before.handles
       /\ eauto = last.before.eauto

Probing == last.op \in {"exists_group", "exists_dataset"}

\* the kind of link a probe asks for
Probed == IF last.op = "exists_group" THEN "group" ELSE "dataset"

\* C12: exists_dataset and exists_group never raise and never change the
\* file: in every reachable state of the file they return false for a path
\* that holds no dataset (no group) and true for one that does, so true
\* immediately after a successful create of that dataset (open_group of that
\* group), and they leave the groups, the datasets and the open ids as they
\* were.
ExistsProbesPure ==
    /\ Probing =>
        /\ last.err = "ok"
        /\ last.ret = (last.before.tree[last.path] = Probed)
        /\ tree = last.before.tree
        /\ handles = last.before.handles
    /\ (last.op = "create_dataset_at" /\ last.err = "ok")
        => exists_dataset(tree, last.path, handles, eauto).ret
    /\ (last.op = "open_group" /\ last.err = "ok")
        => exists_group(tree, last.path, handles, eauto).ret

\* a dataset found at a path of two segments, the file left as it was
ExistsProbesPureWitness ==
    /\ last.op = "exists_dataset"
    /\ Len(last.path) = 2
    /\ last.ret = TRUE
    /\ tree[last.path] = "dataset"
    /\ tree = last.before.tree
    /\ handles = last.before.handles

\* the path of a call and the paths of the groups it leads through
Segments == Prefixes(last.path) \cup {last.path}

\* C13: open_group on a path none of whose segments exist creates every
\* group along the path in one call and nothing else; called when all
\* segments exist it opens the group and changes nothing; when the open and
\* the create both fail (the path holds a dataset or leads through one) it
\* fails with the creation error naming the path, and changes nothing.
OpenGroupCreatesPath ==
    last.op = "open_group" =>
        LET t0 == last.before.tree IN
        /\ (\A q \in Segments : t0[q] = "none")
            => /\ last.err = "ok"
               /\ \A q \in Segments : tree[q] = "group"
               /\ \A q \in Paths \ Segments : tree[q] = t0[q]
        /\ (\A q \in Segments : t0[q] = "group")
            => /\ last.err = "ok"
               /\ tree = t0
        /\ (\E q \in Segments : t0[q] = "dataset")
            => /\ last.err = "create_failed"
               /\ last.ret = last.path
               /\ tree = t0

\* two groups created by one call on a path of two segments
OpenGroupCreatesPathWitness ==
    /\ last.op = "open_group"
    /\ Len(last.path) = 2
    /\ \A q \in Segments : last.before.tree[q] = "none"
    /\ \A q \in Segments : tree[q] = "group"
    /\ last.err = "ok"

====
